---- MODULE Spec2Model ----
(***************************************************************************)
(* Shift-allowance backend: the spreadsheet ingestion pipeline             *)
(* (services/upload_service.py), the summary aggregation engine with its   *)
(* latest-month cache (services/client_summary_service.py) and the summary *)
(* download service (services/client_summary_download_service.py).         *)
(*                                                                         *)
(* Dates are first-of-month dates, written as the integer                  *)
(* year * 12 + (month - 1); 0 stands for None.  Money and days are         *)
(* integers.                                                               *)
(***************************************************************************)
EXTENDS Integers, Sequences, FiniteSets, TLC

VARIABLES
    records,        \* committed ShiftAllowances rows
    mappings,       \* committed ShiftMapping rows
    batches,        \* committed UploadedFiles rows, indexed by id
    nextId,         \* next ShiftAllowances.id the database hands out
    txRecords,      \* ShiftAllowances rows flushed in the open transaction
    txMappings,     \* ShiftMapping rows added in the open transaction
    up,             \* the running (or last finished) process_excel_upload call
    errorFiles,     \* media/error_excels: file name -> rows written
    cache,          \* diskcache entry under LATEST_MONTH_KEY
    now,            \* wall clock, seconds
    last,           \* the last summary / download call and what it returned
    exports,        \* exports/: file path -> the file on disk
    streams,        \* the /client-summary/download requests in flight
    computed        \* the last default summary that was computed from the store

vars == <<records, mappings, batches, nextId, txRecords, txMappings, up,
          errorFiles, cache, now, last, exports, streams, computed>>

dbVars == <<records, mappings, batches, nextId, txRecords, txMappings, up, errorFiles>>

svcVars == <<cache, now, last, exports, streams, computed>>

(***************************************************************************)
(* Bounds of the model                                                     *)
(***************************************************************************)
MaxRows == 2          \* rows of an uploaded file
MaxUploads == 2       \* calls of process_excel_upload
MaxRecords == 2       \* stored records the aggregation is applied to
MaxTicks == 3         \* clock steps
TickSeconds == 43200  \* length of one clock step
CurrentYear == 2025   \* date.today().year
CurrentMonth == 11    \* date.today().month

EmpIds == {"E1", "E2"}
ShiftTypes == <<"A", "B", "C", "PRIME">>
ShiftTypeSet == {"A", "B", "C", "PRIME"}

(***************************************************************************)
(* Dates                                                                   *)
(***************************************************************************)
Date(y, m) == y * 12 + (m - 1)
YearOf(d) == d \div 12
MonthOf(d) == (d % 12) + 1

(***************************************************************************)
(* upload_service.py                                                       *)
(***************************************************************************)
MONTH_MAP ==
    [a \in {"Jan", "Feb", "Mar", "Apr", "May", "Jun",
            "Jul", "Aug", "Sep", "Oct", "Nov", "Dec"} |->
        CASE a = "Jan" -> 1 [] a = "Feb" -> 2 [] a = "Mar" -> 3 [] a = "Apr" -> 4
          [] a = "May" -> 5 [] a = "Jun" -> 6 [] a = "Jul" -> 7 [] a = "Aug" -> 8
          [] a = "Sep" -> 9 [] a = "Oct" -> 10 [] a = "Nov" -> 11 [] a = "Dec" -> 12]

\* str.title() on the month abbreviations the model uses
Title(s) ==
    CASE s = "feb" -> "Feb"
      [] s = "jan" -> "Jan"
      [] OTHER -> s

\* A month cell is the text  <abbr>'<yy> : the record [abbr, yy].
\* month_pattern: ^(Jan|...|Dec)'[0-9]{2}$
month_pattern(cell) ==
    /\ cell.abbr \in DOMAIN MONTH_MAP
    /\ cell.yy \in 0..99

\* parse_month_format: None (0) when the abbreviation is unknown
parse_month_format(cell) ==
    IF Title(cell.abbr) \in DOMAIN MONTH_MAP
    THEN Date(2000 + cell.yy, MONTH_MAP[Title(cell.abbr)])
    ELSE 0

ShiftCols == <<"shift_a_days", "shift_b_days", "shift_c_days", "prime_days">>
MonthCols == <<"duration_month", "payroll_month">>

\* validate_excel_data, one row: the error reasons, in the order the code
\* appends them (the "; "-joined error string)
RowErrors(row) ==
    LET dayErrs == SelectSeq(ShiftCols, LAMBDA c : ~row[c].num)
        monErrs == SelectSeq(MonthCols, LAMBDA c : ~month_pattern(row[c]))
    IN dayErrs \o monErrs

\* Validation that rejects nothing.
CleanRows_KeepsAll(rows) == rows

\* validate_excel_data: clean_df
CleanRows(rows) == SelectSeq(rows, LAMBDA r : RowErrors(r) = <<>>)

\* Validation that reports nothing.
ErrorRows_None(rows) == <<>>

\* validate_excel_data: error_df (row plus its "error" column)
ErrorRows(rows) ==
    LET bad == SelectSeq(rows, LAMBDA r : RowErrors(r) # <<>>)
    IN [i \in 1..Len(bad) |-> [row |-> bad[i], error |-> RowErrors(bad[i])]]

\* Line 136: int(row.get(k, 0)) truncates towards zero.
shift_data(cell) ==
    IF cell.half /\ cell.val < 0 THEN cell.val + 1 ELSE cell.val

\* mapping_pairs of one clean row: the ShiftMapping rows added for record rid
MappingPairs(row, rid) ==
    {[shiftallowance_id |-> rid, shift_type |-> ShiftTypes[i],
      days |-> shift_data(row[ShiftCols[i]])] :
        i \in {j \in 1..4 : shift_data(row[ShiftCols[j]]) > 0}}

\* The ShiftAllowances row built from a clean row (sa_payload)
SaRow(row, rid) ==
    [id |-> rid,
     emp_id |-> row.emp_id,
     client |-> row.client,
     department |-> row.department,
     account_manager |-> row.account_manager,
     duration_month |-> parse_month_format(row.duration_month),
     payroll_month |-> parse_month_format(row.payroll_month)]

\* The unique constraint of the live schema: (employee id, duration_month)
ViolatesUnique(sa, stored) ==
    \E r \in stored : r.emp_id = sa.emp_id /\ r.duration_month = sa.duration_month

(***************************************************************************)
(* process_excel_upload, as the steps between its commits                  *)
(***************************************************************************)
NoResult == [kind |-> "none", code |-> 0, detail |-> "", records_inserted |-> 0,
             records_skipped |-> 0, download_link |-> 0]

NoFile == [filename_ok |-> TRUE, columns_ok |-> TRUE, rows |-> <<>>]

InitUp ==
    [pc |-> "idle", calls |-> 0, file |-> NoFile, batch |-> 0, status |-> "",
     payroll_month |-> 0, record_count |-> -1, clean |-> <<>>, errors |-> <<>>,
     idx |-> 0, inserted_count |-> 0, firstId |-> 1, exc |-> "", result |-> NoResult]

\* raise HTTPException(status_code, detail)
Raised(code, detail) == [NoResult EXCEPT !.kind = "raise", !.code = code, !.detail = detail]

\* db.commit() of the UploadedFiles row the call holds
CommitBatch(u) ==
    [batches EXCEPT ![u.batch] = [status |-> u.status,
                                  record_count |-> u.record_count,
                                  payroll_month |-> u.payroll_month]]

\* Lines 75-88: the extension check, then the 'processing' row is committed.
StartUpload(f) ==
    /\ up.pc = "idle"
    /\ up.calls < MaxUploads
    /\ IF ~f.filename_ok
       THEN /\ up' = [InitUp EXCEPT !.calls = up.calls + 1, !.file = f, !.firstId = nextId,
                                    !.result = Raised(400, "Only Excel files are allowed")]
            /\ UNCHANGED batches
       ELSE /\ batches' = Append(batches, [status |-> "processing", record_count |-> -1,
                                            payroll_month |-> 0])
            /\ up' = [InitUp EXCEPT !.pc = "read", !.calls = up.calls + 1, !.file = f,
                                    !.batch = Len(batches) + 1, !.status = "processing",
                                    !.firstId = nextId]
    /\ UNCHANGED <<records, mappings, nextId, txRecords, txMappings, errorFiles>>
    /\ UNCHANGED svcVars

\* Lines 91-117: read, rename, required columns, validate, parse the months,
\* commit the batch's payroll month.
ReadAndValidate ==
    /\ up.pc = "read"
    /\ LET clean == CleanRows(up.file.rows)
           errs == ErrorRows(up.file.rows)
       IN IF ~up.file.columns_ok
          THEN /\ up' = [up EXCEPT !.pc = "except", !.exc = "http_missing_columns"]
               /\ UNCHANGED batches
          ELSE IF clean = <<>>
          THEN /\ up' = [up EXCEPT !.pc = "except", !.exc = "http_no_valid_rows",
                                   !.errors = errs]
               /\ UNCHANGED batches
          ELSE LET u == [up EXCEPT !.pc = "insert", !.clean = clean, !.errors = errs,
                                   !.idx = 1, !.inserted_count = 0,
                                   !.payroll_month = parse_month_format(clean[1].payroll_month)]
               IN /\ up' = u
                  /\ batches' = CommitBatch(u)
    /\ UNCHANGED <<records, mappings, nextId, txRecords, txMappings, errorFiles>>
    /\ UNCHANGED svcVars

\* Lines 132-163, one iteration: db.add(sa); db.flush(); the mappings.
InsertRow ==
    /\ up.pc = "insert"
    /\ up.idx <= Len(up.clean)
    /\ LET row == up.clean[up.idx]
           sa == SaRow(row, nextId)
       IN IF ViolatesUnique(sa, records \cup txRecords)
          THEN /\ up' = [up EXCEPT !.pc = "except", !.exc = "integrity_error"]
               /\ UNCHANGED <<txRecords, txMappings, nextId>>
          ELSE /\ txRecords' = txRecords \cup {sa}
               /\ txMappings' = txMappings \cup MappingPairs(row, nextId)
               /\ nextId' = nextId + 1
               /\ up' = [up EXCEPT !.idx = up.idx + 1,
                                   !.inserted_count = up.inserted_count + 1]
    /\ UNCHANGED <<records, mappings, batches, errorFiles>>
    /\ UNCHANGED svcVars

\* Line 165: db.commit() after the loop.
CommitRows ==
    /\ up.pc = "insert"
    /\ up.idx > Len(up.clean)
    /\ records' = records \cup txRecords
    /\ mappings' = mappings \cup txMappings
    /\ txRecords' = {}
    /\ txMappings' = {}
    /\ up' = [up EXCEPT !.pc = IF up.errors # <<>> THEN "report" ELSE "finish"]
    /\ UNCHANGED <<batches, nextId, errorFiles>>
    /\ UNCHANGED svcVars

\* Lines 168-182: the error report is written, the batch becomes
\* 'partially_processed'.  error_df.to_excel may raise (the write fails).
WriteErrorReport(written) ==
    /\ up.pc = "report"
    /\ IF written
       THEN LET error_file == up.batch
                u == [up EXCEPT !.pc = "idle", !.status = "partially_processed",
                                !.record_count = up.inserted_count,
                                !.result = [NoResult EXCEPT
                                    !.kind = "partial",
                                    !.code = 200,
                                    !.records_inserted = up.inserted_count,
                                    !.records_skipped = Len(up.errors),
                                    !.download_link = error_file]]
            IN /\ errorFiles' = errorFiles @@ (error_file :> up.errors)
               /\ up' = u
               /\ batches' = CommitBatch(u)
       ELSE /\ up' = [up EXCEPT !.pc = "except", !.exc = "os_error"]
            /\ UNCHANGED <<errorFiles, batches>>
    /\ UNCHANGED <<records, mappings, nextId, txRecords, txMappings>>
    /\ UNCHANGED svcVars

\* Lines 184-191: no error rows, the batch becomes 'processed'.
FinishProcessed ==
    /\ up.pc = "finish"
    /\ LET u == [up EXCEPT !.pc = "idle", !.status = "processed",
                           !.record_count = up.inserted_count,
                           !.result = [NoResult EXCEPT
                               !.kind = "ok", !.code = 200,
                               !.records_inserted = up.inserted_count]]
       IN /\ up' = u
          /\ batches' = CommitBatch(u)
    /\ UNCHANGED <<records, mappings, nextId, txRecords, txMappings, errorFiles>>
    /\ UNCHANGED svcVars

\* A handler that commits the pending rows instead of rolling them back.
ExceptHandler_NoRollback ==
    /\ up.pc = "except"
    /\ records' = records \cup txRecords
    /\ mappings' = mappings \cup txMappings
    /\ txRecords' = {}
    /\ txMappings' = {}
    /\ LET u == [up EXCEPT !.pc = "idle", !.status = "failed",
                           !.result = Raised(400, "Duplicate data found: This record already exists for the same employee and payroll month.")]
       IN /\ up' = u
          /\ batches' = CommitBatch(u)
    /\ UNCHANGED <<nextId, errorFiles>>
    /\ UNCHANGED svcVars

\* Lines 193-209: db.rollback(); status = "failed"; db.commit(); raise.
ExceptHandler ==
    /\ up.pc = "except"
    /\ txRecords' = {}
    /\ txMappings' = {}
    /\ LET res == CASE up.exc = "http_missing_columns" -> Raised(400, "Missing columns")
                    [] up.exc = "http_no_valid_rows" -> Raised(400, "No valid rows found in file")
                    [] up.exc = "integrity_error" ->
                           Raised(400, "Duplicate data found: This record already exists for the same employee and payroll month.")
                    [] OTHER -> Raised(500, "Processing failed")
           u == [up EXCEPT !.pc = "idle", !.status = "failed", !.result = res]
       IN /\ up' = u
          /\ batches' = CommitBatch(u)
    /\ UNCHANGED <<records, mappings, nextId, errorFiles>>
    /\ UNCHANGED svcVars

(***************************************************************************)
(* Uploaded files of the model                                             *)
(***************************************************************************)
\* A day cell: text, or the number  val + 1/2  when half, else  val.
NumCell(n) == [num |-> TRUE, val |-> n, half |-> FALSE]
HalfCell(n) == [num |-> TRUE, val |-> n, half |-> TRUE]
TextCell == [num |-> FALSE, val |-> 0, half |-> FALSE]
MonthCell(a, y) == [abbr |-> a, yy |-> y]

FileRow(e, dm, a, p) ==
    [emp_id |-> e, client |-> "Acme", department |-> "Ops", account_manager |-> "Mgr",
     duration_month |-> dm, payroll_month |-> MonthCell("Feb", 25),
     shift_a_days |-> a, shift_b_days |-> NumCell(0), shift_c_days |-> NumCell(0),
     prime_days |-> p]

FileRows ==
    {FileRow("E1", dm, d[1], d[2]) :
        dm \in {MonthCell("Jan", 25), MonthCell("jan", 25)},
        d \in {<<NumCell(2), NumCell(1)>>, <<TextCell, NumCell(1)>>}}
    \cup {FileRow("E1", MonthCell("Jan", 25), NumCell(0), NumCell(0)),
          FileRow("E2", MonthCell("Jan", 25), HalfCell(0), NumCell(1))}

SeqsUpTo(S, n) == UNION {[1..k -> S] : k \in 0..n}

Files ==
    {[filename_ok |-> FALSE, columns_ok |-> TRUE, rows |-> <<>>],
     [filename_ok |-> TRUE, columns_ok |-> FALSE, rows |-> <<>>]}
    \cup {[filename_ok |-> TRUE, columns_ok |-> TRUE, rows |-> rs] :
            rs \in SeqsUpTo(FileRows, MaxRows)}

NoCall == [svc |-> "none"]

InitDb ==
    /\ records = {}
    /\ mappings = {}
    /\ batches = <<>>
    /\ nextId = 1
    /\ txRecords = {}
    /\ txMappings = {}
    /\ up = InitUp
    /\ errorFiles = <<>>

\* Line 170: pd.ExcelWriter(file_path) opens the file for writing, which
\* empties it; leaving the with block saves the workbook into it.
OpenedFile == [complete |-> FALSE, rows |-> <<>>]
WrittenFile(data) == [complete |-> TRUE, rows |-> data]

\* No download request is in flight.
IdleStream == [pc |-> "idle", payload |-> <<>>, status |-> 0, df |-> <<>>,
               file_path |-> "", sent |-> OpenedFile]
NoStreams == [i \in 1..2 |-> IdleStream]

InitSvc ==
    /\ cache = <<>>
    /\ now = 0
    /\ last = NoCall
    /\ exports = <<>>
    /\ streams = NoStreams
    /\ computed = <<>>

Init == InitDb /\ InitSvc

Next ==
    \/ \E f \in Files : StartUpload(f)
    \/ ReadAndValidate
    \/ InsertRow
    \/ CommitRows
    \/ \E written \in BOOLEAN : WriteErrorReport(written)
    \/ FinishProcessed
    \/ ExceptHandler

Spec == Init /\ [][Next]_vars

(***************************************************************************)
(* client_summary_service.py                                               *)
(***************************************************************************)
CACHE_TTL == 24 * 60 * 60

\* str.lower() / str.upper() on the names the model uses
Lower(s) ==
    CASE s \in {"Acme", "ACME"} -> "acme"
      [] s \in {"Acme West"} -> "acme west"
      [] s \in {"Beta", "BETA"} -> "beta"
      [] s \in {"Ops", "OPS"} -> "ops"
      [] s \in {"Dev", "DEV"} -> "dev"
      [] s \in {"E1"} -> "e1"
      [] s \in {"E2"} -> "e2"
      [] s \in {"Mgr"} -> "mgr"
      [] OTHER -> s

Upper(s) ==
    CASE s = "q1" -> "Q1" [] s = "q2" -> "Q2" [] s = "q3" -> "Q3" [] s = "q4" -> "Q4"
      [] s = " q2" -> " Q2"
      [] OTHER -> s

\* ShiftsAmount: amount per day for (shift_type, payroll_year); read-only.
\* PRIME has no rate for 2024.
ShiftsAmountRows ==
    {[shift_type |-> "A", payroll_year |-> 2024, amount |-> 100],
     [shift_type |-> "B", payroll_year |-> 2024, amount |-> 200],
     [shift_type |-> "C", payroll_year |-> 2024, amount |-> 300],
     [shift_type |-> "A", payroll_year |-> 2025, amount |-> 110],
     [shift_type |-> "B", payroll_year |-> 2025, amount |-> 220],
     [shift_type |-> "C", payroll_year |-> 2025, amount |-> 330],
     [shift_type |-> "PRIME", payroll_year |-> 2025, amount |-> 500]}

\* A payload field that is absent (or falsy): 0, "", <<>>.
NoPayload ==
    [clients |-> [kind |-> "absent", map |-> <<>>],
     selected_year |-> 0, selected_months |-> <<>>, selected_quarters |-> <<>>,
     start_month |-> 0, end_month |-> 0, emp_id |-> "", account_manager |-> ""]

\* A default test that overlooks the employee and manager filters.
is_default_without_filters(payload) ==
    /\ payload.clients.kind \in {"absent", "ALL"}
    /\ payload.selected_year = 0
    /\ payload.selected_months = <<>>
    /\ payload.selected_quarters = <<>>
    /\ payload.start_month = 0
    /\ payload.end_month = 0

is_default_latest_month_request(payload) ==
    /\ payload.clients.kind \in {"absent", "ALL"}
    /\ payload.selected_year = 0
    /\ payload.selected_months = <<>>
    /\ payload.selected_quarters = <<>>
    /\ payload.start_month = 0
    /\ payload.end_month = 0
    /\ payload.emp_id = ""
    /\ payload.account_manager = ""

\* validate_year: "" when the year passes, else the 400 detail
validate_year(year) ==
    IF year <= 0 THEN "selected_year must be greater than 0"
    ELSE IF year > CurrentYear THEN "selected_year cannot be in the future"
    ELSE ""

\* str.strip() on the quarter tokens the model uses
Strip(s) ==
    CASE s = " Q1 " -> "Q1" [] s = " Q2" -> "Q2" [] s = " q2" -> "q2"
      [] OTHER -> s

\* A quarter lookup that keeps the spaces around the token.
quarter_to_months_unstripped(q) ==
    LET t == Upper(q)
    IN CASE t = "Q1" -> <<1, 2, 3>>
         [] t = "Q2" -> <<4, 5, 6>>
         [] t = "Q3" -> <<7, 8, 9>>
         [] t = "Q4" -> <<10, 11, 12>>
         [] OTHER -> <<>>

\* quarter_to_months: <<>> stands for the 400 "Invalid quarter"
quarter_to_months(q) ==
    LET t == Strip(Upper(q))
    IN CASE t = "Q1" -> <<1, 2, 3>>
         [] t = "Q2" -> <<4, 5, 6>>
         [] t = "Q3" -> <<7, 8, 9>>
         [] t = "Q4" -> <<10, 11, 12>>
         [] OTHER -> <<>>

\* month_range, the loop of lines 68-75
RECURSIVE month_range_loop(_, _)
month_range_loop(cur, end) ==
    IF cur > end THEN <<>>
    ELSE <<cur>> \o month_range_loop(
             Date(YearOf(cur) + (MonthOf(cur) \div 12), (MonthOf(cur) % 12) + 1), end)

\* month_range: the 400 detail (or "") and the months
month_range(start, end) ==
    IF start > end
    THEN [err |-> "start_month cannot be after end_month", months |-> <<>>]
    ELSE [err |-> "", months |-> month_range_loop(start, end)]

\* strftime("%Y-%m") of a month, and the merged label of a quarter
MonthLabel(d) == <<d>>
QuarterLabel(mlist) == <<mlist[1], mlist[Len(mlist)]>>

empty_shift_totals == [A |-> 0, B |-> 0, C |-> 0, PRIME |-> 0]

NoDataBlock ==
    [message |-> TRUE, clients |-> <<>>,
     month_total |-> [total_head_count |-> 0, shift |-> empty_shift_totals,
                      total_allowance |-> 0]]

EmptyMonthBlock == [NoDataBlock EXCEPT !.message = FALSE]

EmptyClientBlock ==
    [shift |-> empty_shift_totals, departments |-> <<>>, client_head_count |-> 0,
     client_total |-> 0]

EmptyDeptBlock ==
    [shift |-> empty_shift_totals, dept_total |-> 0, employees |-> <<>>,
     dept_head_count |-> 0]

Elems(seq) == {seq[i] : i \in 1..Len(seq)}

\* func.max(ShiftAllowances.duration_month); 0 for None
LatestMonth ==
    IF records = {} THEN 0
    ELSE CHOOSE d \in {r.duration_month : r \in records} :
            \A r \in records : r.duration_month <= d

ShiftIndex(t) == CHOOSE i \in 1..4 : ShiftTypes[i] = t

\* The rows of a query, in the order the database returns them
\* (by record id, then shift type).
RECURSIVE RowsInOrder(_)
RowsInOrder(S) ==
    IF S = {} THEN <<>>
    ELSE LET r == CHOOSE x \in S : \A y \in S :
                      x.rid * 4 + ShiftIndex(x.shift_type)
                          <= y.rid * 4 + ShiftIndex(y.shift_type)
         IN <<r>> \o RowsInOrder(S \ {r})

\* Lines 172-193: ShiftAllowances JOIN ShiftMapping LEFT JOIN ShiftsAmount on
\* shift type and payroll_year = year of duration_month (amount 0 for NULL).
RateFor(shift_type, year) ==
    LET rate == {a \in ShiftsAmountRows :
                    a.shift_type = shift_type /\ a.payroll_year = year}
    IN IF rate = {} THEN 0 ELSE (CHOOSE a \in rate : TRUE).amount

JoinedRow(r, m, amt) ==
    [rid |-> r.id, duration_month |-> r.duration_month, client |-> r.client,
     department |-> r.department, emp_id |-> r.emp_id,
     account_manager |-> r.account_manager, shift_type |-> m.shift_type,
     days |-> m.days, amount |-> amt]

SummaryJoin ==
    UNION {{JoinedRow(r, m, RateFor(m.shift_type, YearOf(r.duration_month))) :
                m \in {x \in mappings : x.shiftallowance_id = r.id}} : r \in records}

\* Lines 118-129: normalized_clients, client_name_map, dept_name_map
NormalizedClients(cmap) ==
    [lc \in {Lower(c) : c \in DOMAIN cmap} |->
        LET c == CHOOSE x \in DOMAIN cmap : Lower(x) = lc
        IN [i \in 1..Len(cmap[c]) |-> Lower(cmap[c][i])]]

ClientDisplayName(cmap, client) ==
    IF \E c \in DOMAIN cmap : Lower(c) = Lower(client)
    THEN CHOOSE c \in DOMAIN cmap : Lower(c) = Lower(client)
    ELSE client

DeptDisplayName(cmap, client, dept) ==
    IF \E c \in DOMAIN cmap : Lower(c) = Lower(client)
    THEN LET c == CHOOSE x \in DOMAIN cmap : Lower(x) = Lower(client)
         IN IF \E i \in 1..Len(cmap[c]) : Lower(cmap[c][i]) = Lower(dept)
            THEN cmap[c][CHOOSE i \in 1..Len(cmap[c]) : Lower(cmap[c][i]) = Lower(dept)]
            ELSE dept
    ELSE dept

\* Lines 196-209: the client / department filter of the summary query
SummaryClientFilter(normalized, row) ==
    \/ DOMAIN normalized = {}
    \/ \E client_lc \in DOMAIN normalized :
          /\ Lower(row.client) = client_lc
          /\ \/ normalized[client_lc] = <<>>
             \/ Lower(row.department) \in Elems(normalized[client_lc])

\* Lines 211-243: emp_id, account_manager and month filters (an or_() of no
\* month leaves the query unfiltered)
SummaryRows(payload, normalized, date_list) ==
    {row \in SummaryJoin :
        /\ SummaryClientFilter(normalized, row)
        /\ payload.emp_id # "" => Lower(row.emp_id) = Lower(payload.emp_id)
        /\ payload.account_manager # "" =>
              Lower(row.account_manager) = Lower(payload.account_manager)
        /\ date_list # {} => row.duration_month \in date_list}

\* Lines 250-257: the period a row is accumulated under (<<>> for None)
PeriodKey(payload, quarter_map, dm) ==
    IF payload.selected_quarters # <<>>
    THEN IF \E q \in DOMAIN quarter_map : dm \in Elems(quarter_map[q])
         THEN CHOOSE q \in DOMAIN quarter_map : dm \in Elems(quarter_map[q])
         ELSE <<>>
    ELSE MonthLabel(dm)

\* Lines 298-313: the employee entry is found or appended, then credited
EmployeesAfterRow(employees, row, total) ==
    LET found == {i \in 1..Len(employees) : employees[i].emp_id = row.emp_id}
        emps == IF found = {}
                THEN Append(employees,
                            [emp_id |-> row.emp_id, account_manager |-> row.account_manager,
                             shift |-> empty_shift_totals, total |-> 0])
                ELSE employees
        k == IF found = {} THEN Len(emps) ELSE CHOOSE i \in found : \A j \in found : i <= j
    IN [emps EXCEPT ![k].shift[row.shift_type] = @ + total, ![k].total = @ + total]

\* Lines 308, 314-315
DeptAfterRow(dept_block, row, total) ==
    LET isNew == \A i \in 1..Len(dept_block.employees) :
                     dept_block.employees[i].emp_id # row.emp_id
    IN [dept_block EXCEPT
           !.employees = EmployeesAfterRow(dept_block.employees, row, total),
           !.dept_head_count = @ + (IF isNew THEN 1 ELSE 0),
           !.shift[row.shift_type] = @ + total,
           !.dept_total = @ + total]

\* A client block whose total is overwritten by the row instead of credited.
ClientAfterRow_Overwrites(client_block, dept_name, row, total) ==
    LET dept_block == IF dept_name \in DOMAIN client_block.departments
                      THEN client_block.departments[dept_name] ELSE EmptyDeptBlock
    IN [client_block EXCEPT
           !.departments = (dept_name :> DeptAfterRow(dept_block, row, total))
                               @@ client_block.departments,
           !.shift[row.shift_type] = @ + total,
           !.client_total = total]

\* Lines 309, 316-317: client_head_count grows when the employee is new to
\* the department
ClientAfterRow(client_block, dept_name, row, total) ==
    LET dept_block == IF dept_name \in DOMAIN client_block.departments
                      THEN client_block.departments[dept_name] ELSE EmptyDeptBlock
        isNew == \A i \in 1..Len(dept_block.employees) :
                     dept_block.employees[i].emp_id # row.emp_id
    IN [client_block EXCEPT
           !.departments = (dept_name :> DeptAfterRow(dept_block, row, total))
                               @@ client_block.departments,
           !.client_head_count = @ + (IF isNew THEN 1 ELSE 0),
           !.shift[row.shift_type] = @ + total,
           !.client_total = @ + total]

\* Lines 262-319: one row added to the response
AddRow(response, period_key, client_name, dept_name, row) ==
    LET total == row.days * row.amount
        month_block == IF response[period_key].message THEN EmptyMonthBlock
                       ELSE response[period_key]
        client_block == IF client_name \in DOMAIN month_block.clients
                        THEN month_block.clients[client_name] ELSE EmptyClientBlock
        dept_block == IF dept_name \in DOMAIN client_block.departments
                      THEN client_block.departments[dept_name] ELSE EmptyDeptBlock
        isNew == \A i \in 1..Len(dept_block.employees) :
                     dept_block.employees[i].emp_id # row.emp_id
    IN [response EXCEPT ![period_key] =
           [month_block EXCEPT
               !.clients = (client_name :> ClientAfterRow(client_block, dept_name, row, total))
                               @@ month_block.clients,
               !.month_total.total_head_count = @ + (IF isNew THEN 1 ELSE 0),
               !.month_total.shift[row.shift_type] = @ + total,
               !.month_total.total_allowance = @ + total]]

\* Lines 248-319: the loop over the rows
RECURSIVE Accumulate(_, _, _, _, _)
Accumulate(payload, quarter_map, rows, i, response) ==
    IF i > Len(rows) THEN response
    ELSE LET row == rows[i]
             period_key == PeriodKey(payload, quarter_map, row.duration_month)
             cmap == payload.clients.map
         IN IF period_key = <<>>
            THEN Accumulate(payload, quarter_map, rows, i + 1, response)
            ELSE Accumulate(payload, quarter_map, rows, i + 1,
                     AddRow(response, period_key,
                            ClientDisplayName(cmap, row.client),
                            DeptDisplayName(cmap, row.client, row.department), row))

\* What a service call hands back: the HTTP status, the error detail or the
\* data, and what it touched on the way (the store, the cache entry).
Fail(code, detail, queried, cache_get) ==
    [status |-> code, detail |-> detail, data |-> <<>>, queried |-> queried,
     cache_get |-> cache_get, cache_set |-> FALSE, cache |-> cache]

\* Lines 146-160: the time window: [err, months, quarter_map]
ResolveWindow(payload, months0) ==
    LET year == payload.selected_year
        qs == payload.selected_quarters
        Window(e, ms, qm) == [err |-> e, months |-> ms, quarter_map |-> qm]
    IN IF payload.start_month # 0 /\ payload.end_month # 0
       THEN LET r == month_range(payload.start_month, payload.end_month)
            IN Window(r.err, r.months, <<>>)
       ELSE IF payload.selected_months # <<>>
       THEN IF validate_year(year) # ""
            THEN Window(validate_year(year), <<>>, <<>>)
            ELSE Window("", [i \in 1..Len(payload.selected_months) |->
                                 Date(year, payload.selected_months[i])], <<>>)
       ELSE IF qs # <<>>
       THEN IF validate_year(year) # ""
            THEN Window(validate_year(year), <<>>, <<>>)
            ELSE IF \E i \in 1..Len(qs) : quarter_to_months(qs[i]) = <<>>
            THEN Window("Invalid quarter (expected Q1-Q4)", <<>>, <<>>)
            ELSE LET mlist(q) == [j \in 1..3 |-> Date(year, quarter_to_months(q)[j])]
                 IN Window("", <<>>,
                       [lab \in {QuarterLabel(mlist(qs[i])) : i \in 1..Len(qs)} |->
                           mlist(qs[CHOOSE i \in 1..Len(qs) :
                                        QuarterLabel(mlist(qs[i])) = lab])])
       ELSE IF months0 = <<>>
       THEN Window("No valid date filter provided", <<>>, <<>>)
       ELSE Window("", months0, <<>>)

\* cache.get(LATEST_MONTH_KEY): the entry unless it has expired
CacheGet ==
    IF cache # <<>> /\ cache.expire_time > now THEN cache.value ELSE <<>>

\* client_summary_service: the result record, plus "cache", the entry the
\* call leaves under LATEST_MONTH_KEY
client_summary_service(payload) ==
    LET isDefault == is_default_latest_month_request(payload)
        cached == IF isDefault THEN CacheGet ELSE <<>>
        noWindow == /\ payload.selected_year = 0 /\ payload.selected_months = <<>>
                    /\ payload.selected_quarters = <<>>
                    /\ payload.start_month = 0 /\ payload.end_month = 0
        allClients == payload.clients.kind \in {"absent", "ALL"}
                          \/ DOMAIN payload.clients.map = {}
        normalized == IF allClients THEN <<>> ELSE NormalizedClients(payload.clients.map)
        months0 == IF noWindow /\ LatestMonth # 0 THEN <<LatestMonth>> ELSE <<>>
        selected_year == IF noWindow THEN YearOf(LatestMonth) ELSE payload.selected_year
        win == ResolveWindow(payload, months0)
        labels == IF payload.selected_quarters # <<>> THEN DOMAIN win.quarter_map
                  ELSE {MonthLabel(win.months[i]) : i \in 1..Len(win.months)}
        date_list == IF payload.selected_quarters # <<>>
                     THEN UNION {Elems(win.quarter_map[q]) : q \in DOMAIN win.quarter_map}
                     ELSE Elems(win.months)
        rows == RowsInOrder(SummaryRows(payload, normalized, date_list))
        response == Accumulate(payload, win.quarter_map, rows, 1,
                               [lab \in labels |-> NoDataBlock])
    IN IF isDefault /\ cached # <<>>
       THEN [status |-> 200, detail |-> "", data |-> cached.data, queried |-> FALSE,
             cache_get |-> TRUE, cache_set |-> FALSE, cache |-> cache]
       ELSE IF noWindow /\ LatestMonth = 0
       THEN Fail(404, "No data available in database", TRUE, isDefault)
       ELSE IF (payload.selected_months # <<>> \/ payload.selected_quarters # <<>>)
               /\ selected_year = 0
       THEN Fail(400, "selected_year is mandatory", FALSE, isDefault)
       ELSE IF win.err # ""
       THEN Fail(400, win.err, FALSE, isDefault)
       ELSE [status |-> 200, detail |-> "", data |-> response, queried |-> TRUE,
             cache_get |-> isDefault, cache_set |-> isDefault,
             cache |-> IF isDefault
                       THEN [value |-> [cached_month |-> MonthLabel(win.months[1]),
                                        data |-> response],
                             expire_time |-> now + CACHE_TTL]
                       ELSE cache]

(***************************************************************************)
(* client_summary_download_service.py                                      *)
(***************************************************************************)
\* "c in client" on the lower-cased names the model uses
IsSubstring(c, client) ==
    \/ c = client
    \/ <<c, client>> \in {<<"acme", "acme west">>, <<"", "acme">>, <<"", "beta">>}

\* A month loop that rolls the year over one month early.
RECURSIVE download_month_loop_early_rollover(_, _, _, _)
download_month_loop_early_rollover(y, m, ey, em) ==
    IF y > ey \/ (y = ey /\ m > em) THEN <<>>
    ELSE <<<<y, m>>>> \o (IF m + 1 > 11
                          THEN download_month_loop_early_rollover(y + 1, 1, ey, em)
                          ELSE download_month_loop_early_rollover(y, m + 1, ey, em))

\* month_range of the download service, lines 42-49: the (year, month) pairs
RECURSIVE download_month_loop(_, _, _, _)
download_month_loop(y, m, ey, em) ==
    IF y > ey \/ (y = ey /\ m > em) THEN <<>>
    ELSE <<<<y, m>>>> \o (IF m + 1 > 12 THEN download_month_loop(y + 1, 1, ey, em)
                          ELSE download_month_loop(y, m + 1, ey, em))

\* month_range of the download service, lines 51-55: year -> its months
download_month_groups(months) ==
    [y \in {months[i][1] : i \in 1..Len(months)} |->
        LET idx == {i \in 1..Len(months) : months[i][1] = y}
        IN [k \in 1..Cardinality(idx) |->
               months[CHOOSE i \in idx : Cardinality({j \in idx : j < i}) = k - 1][2]]]

\* month_range of the download service: the 400 detail (or "") and the map
download_month_range(start, end) ==
    LET sy == YearOf(start)
        sm == MonthOf(start)
        ey == YearOf(end)
        em == MonthOf(end)
    IN IF sy > ey \/ (sy = ey /\ sm > em)
       THEN [err |-> "start_month cannot be greater than end_month", result |-> <<>>]
       ELSE [err |-> "", result |-> download_month_groups(download_month_loop(sy, sm, ey, em))]

\* Lines 179-204: ShiftAllowances JOIN ShiftMapping JOIN ShiftsAmount on shift
\* type and payroll_year = year of payroll_month
DownloadJoin ==
    UNION {{JoinedRow(r, m, RateFor(m.shift_type, YearOf(r.payroll_month))) :
                m \in {x \in mappings :
                          /\ x.shiftallowance_id = r.id
                          /\ \E a \in ShiftsAmountRows :
                                /\ a.shift_type = x.shift_type
                                /\ a.payroll_year = YearOf(r.payroll_month)}} :
           r \in records}

\* Lines 206-219: the client / department filter of fetch_rows
DownloadClientFilter(normalized, row) ==
    \/ DOMAIN normalized = {}
    \/ /\ \E c \in DOMAIN normalized : c # "" /\ IsSubstring(c, Lower(row.client))
       /\ LET matched == CHOOSE c \in DOMAIN normalized :
                             c # "" /\ IsSubstring(c, Lower(row.client))
          IN \/ normalized[matched] = <<>>
             \/ Lower(row.department) \in Elems(normalized[matched])

fetch_rows(year, months, normalized) ==
    {row \in DownloadJoin :
        /\ YearOf(row.duration_month) = year
        /\ MonthOf(row.duration_month) \in Elems(months)
        /\ DownloadClientFilter(normalized, row)}

\* build_dataframe: one spreadsheet row per (month, employee), first seen first
RECURSIVE build_dataframe_loop(_, _, _)
build_dataframe_loop(rows, i, grouped) ==
    IF i > Len(rows) THEN grouped
    ELSE LET r == rows[i]
             hit == {k \in 1..Len(grouped) :
                        /\ grouped[k].year_month = MonthLabel(r.duration_month)
                        /\ grouped[k].employee_id = r.emp_id}
             g0 == IF hit = {}
                   THEN Append(grouped,
                            [year_month |-> MonthLabel(r.duration_month),
                             client |-> r.client, department |-> r.department,
                             employee_id |-> r.emp_id,
                             account_manager |-> r.account_manager,
                             shift_type_days |-> <<>>, total_allowance |-> 0])
                   ELSE grouped
             k == IF hit = {} THEN Len(g0) ELSE CHOOSE x \in hit : TRUE
             g1 == [g0 EXCEPT
                      ![k].shift_type_days = (r.shift_type :> r.days) @@ @,
                      ![k].total_allowance = @ + r.days * r.amount]
         IN build_dataframe_loop(rows, i + 1, g1)

build_dataframe(rows) == build_dataframe_loop(RowsInOrder(rows), 1, <<>>)

DownloadFail(code, detail, missing) ==
    [status |-> code, detail |-> detail, data |-> <<>>, missing |-> missing,
     file_path |-> "", queried |-> TRUE, cache_get |-> FALSE, cache_set |-> FALSE]

\* Lines 164-173: the export
DownloadOk(data) ==
    [status |-> 200, detail |-> "", data |-> data, missing |-> <<>>,
     file_path |-> "exports/client_summary.xlsx", queried |-> TRUE,
     cache_get |-> FALSE, cache_set |-> FALSE]

\* Lines 110-127: range mode
DownloadRange(payload, normalized) ==
    LET range == download_month_range(payload.start_month, payload.end_month)
        ymap == range.result
        years == DOMAIN ymap
        YearRows(y) == fetch_rows(y, ymap[y], normalized)
        \* the years in ascending order
        yseq == [k \in 1..Cardinality(years) |->
                    CHOOSE y \in years : Cardinality({z \in years : z < y}) = k - 1]
        RECURSIVE Missing(_)
        Missing(k) ==
            IF k > Len(yseq) THEN <<>>
            ELSE (IF YearRows(yseq[k]) = {}
                  THEN [j \in 1..Len(ymap[yseq[k]]) |->
                           MonthLabel(Date(yseq[k], ymap[yseq[k]][j]))]
                  ELSE <<>>) \o Missing(k + 1)
        RECURSIVE Frames(_)
        Frames(k) ==
            IF k > Len(yseq) THEN <<>>
            ELSE build_dataframe(YearRows(yseq[k])) \o Frames(k + 1)
    IN IF range.err # ""
       THEN DownloadFail(400, range.err, <<>>)
       ELSE IF Missing(1) # <<>>
       THEN DownloadFail(404, "No data available for months", Missing(1))
       ELSE DownloadOk(Frames(1))

\* Lines 129-162: month / quarter mode
DownloadMonths(payload, normalized) ==
    LET year == IF payload.selected_year # 0 THEN payload.selected_year ELSE CurrentYear
        qs == payload.selected_quarters
        RECURSIVE QuarterMonths(_)
        QuarterMonths(i) ==
            IF i > Len(qs) THEN <<>> ELSE quarter_to_months(qs[i]) \o QuarterMonths(i + 1)
        inYear == {MonthOf(r.duration_month) :
                      r \in {x \in records : YearOf(x.duration_month) = year}}
        latest_month == IF inYear = {} THEN 0
                        ELSE CHOOSE m \in inYear : \A n \in inYear : n <= m
        months == IF qs # <<>> THEN QuarterMonths(1)
                  ELSE IF payload.selected_months # <<>> THEN payload.selected_months
                  ELSE <<latest_month>>
        rows == fetch_rows(year, months, normalized)
    IN IF (payload.selected_months # <<>> \/ qs # <<>>) /\ payload.selected_year = 0
       THEN DownloadFail(400, "selected_year is mandatory when using selected_months or selected_quarters", <<>>)
       ELSE IF validate_year(year) # ""
       THEN DownloadFail(400, validate_year(year), <<>>)
       ELSE IF \E i \in 1..Len(qs) : quarter_to_months(qs[i]) = <<>>
       THEN DownloadFail(400, "Invalid quarter (Q1-Q4 expected)", <<>>)
       ELSE IF qs = <<>> /\ payload.selected_months = <<>> /\ latest_month = 0
       THEN DownloadFail(404, "No data available for the current year", <<>>)
       ELSE IF rows = {}
       THEN DownloadFail(404, "No data available for selected filters", <<>>)
       ELSE DownloadOk(build_dataframe(rows))

client_summary_download_service(payload0) ==
    LET allClients == payload0.clients.kind \in {"absent", "ALL"}
                          \/ DOMAIN payload0.clients.map = {}
        noWindow == /\ payload0.selected_year = 0 /\ payload0.selected_months = <<>>
                    /\ payload0.selected_quarters = <<>>
                    /\ payload0.start_month = 0 /\ payload0.end_month = 0
        latest_month_obj == IF LatestMonth # 0 THEN LatestMonth
                            ELSE Date(CurrentYear, CurrentMonth)
        payload == IF allClients /\ noWindow
                   THEN [payload0 EXCEPT !.selected_year = YearOf(latest_month_obj),
                                         !.selected_months = <<MonthOf(latest_month_obj)>>]
                   ELSE payload0
        normalized == IF allClients THEN <<>> ELSE NormalizedClients(payload.clients.map)
    IN IF payload.start_month # 0 /\ payload.end_month # 0
       THEN DownloadRange(payload, normalized)
       ELSE DownloadMonths(payload, normalized)

(***************************************************************************)
(* Requests                                                                *)
(***************************************************************************)
\* Section 4.2, Caching: a request is default iff it restricts neither the
\* clients, nor the time window, nor the employee or manager.
IsDefaultRequest(p) ==
    /\ p.clients.kind # "map"
    /\ p.selected_year = 0 /\ p.selected_months = <<>> /\ p.selected_quarters = <<>>
    /\ p.start_month = 0 /\ p.end_month = 0
    /\ p.emp_id = "" /\ p.account_manager = ""

SummaryRequest(p) ==
    LET res == client_summary_service(p)
    IN /\ last' = [svc |-> "summary", payload |-> p, at |-> now, status |-> res.status,
                   detail |-> res.detail, data |-> res.data, queried |-> res.queried,
                   cache_get |-> res.cache_get, cache_set |-> res.cache_set,
                   missing |-> <<>>, file_path |-> ""]
       /\ cache' = res.cache
       /\ computed' = IF IsDefaultRequest(p) /\ res.status = 200 /\ res.queried
                      THEN [at |-> now, data |-> res.data]
                      ELSE computed
       /\ UNCHANGED <<dbVars, now, exports, streams>>

DownloadRequest(p) ==
    LET res == client_summary_download_service(p)
    IN /\ last' = [svc |-> "download", payload |-> p, at |-> now, status |-> res.status,
                   detail |-> res.detail, data |-> res.data, queried |-> res.queried,
                   cache_get |-> res.cache_get, cache_set |-> res.cache_set,
                   missing |-> res.missing, file_path |-> res.file_path]
       /\ exports' = IF res.status = 200
                     THEN (res.file_path :> WrittenFile(res.data)) @@ exports
                     ELSE exports
       /\ UNCHANGED <<dbVars, cache, now, streams, computed>>

Tick ==
    /\ now < MaxTicks * TickSeconds
    /\ now' = now + TickSeconds
    /\ UNCHANGED <<dbVars, cache, last, exports, streams, computed>>

(***************************************************************************)
(* get_excel_service.py                                                    *)
(***************************************************************************)
\* str.strip() / trim() on the names the model uses
Trim(s) ==
    CASE s = " acme " -> "acme"
      [] s = " E1 " -> "E1"
      [] OTHER -> s

\* An export call without any filter.
NoExportParams ==
    [emp_id |-> "", account_manager |-> "", start_month |-> 0, end_month |-> 0,
     department |-> "", client |-> ""]

\* Lines 30-73: base_query, the records that pass the entity filters
ExportBaseQuery(q) ==
    {r \in records :
        /\ q.emp_id # "" => Trim(r.emp_id) = Trim(q.emp_id)
        /\ q.account_manager # "" =>
              Lower(Trim(r.account_manager)) = Lower(Trim(q.account_manager))
        /\ q.department # "" => Lower(Trim(r.department)) = Lower(Trim(q.department))
        /\ q.client # "" => Lower(Trim(r.client)) = Lower(Trim(q.client))}

\* A scan that stops one month short.
RECURSIVE ExportScan_ElevenMonths(_, _)
ExportScan_ElevenMonths(base, i) ==
    IF i >= 11 THEN 0
    ELSE LET check_month == Date(CurrentYear, CurrentMonth) - i
         IN IF \E r \in base : r.duration_month = check_month
            THEN check_month
            ELSE ExportScan_ElevenMonths(base, i + 1)

\* Lines 112-122: the first of the twelve months back from the current one
\* that has a record of the base query (0: none)
RECURSIVE ExportScan(_, _)
ExportScan(base, i) ==
    IF i >= 12 THEN 0
    ELSE LET check_month == Date(CurrentYear, CurrentMonth) - i
         IN IF \E r \in base : r.duration_month = check_month
            THEN check_month
            ELSE ExportScan(base, i + 1)

\* Lines 136-140: ALLOWANCE_MAP keeps, for a shift type, the amount of the
\* ShiftsAmount row that the unordered query returns last; "order" names
\* the payroll year of that row.
RateOrders ==
    {o \in [ShiftTypeSet -> {a.payroll_year : a \in ShiftsAmountRows}] :
        \A t \in ShiftTypeSet :
            \E a \in ShiftsAmountRows : a.shift_type = t /\ a.payroll_year = o[t]}

ALLOWANCE_MAP(order) == [t \in ShiftTypeSet |-> RateFor(t, order[t])]

\* Lines 152-159: total_allowance of one record's mappings
RECURSIVE ExportTotal(_, _)
ExportTotal(ms, order) ==
    IF ms = {} THEN 0
    ELSE LET m == CHOOSE x \in ms : TRUE
         IN ALLOWANCE_MAP(order)[m.shift_type] * m.days + ExportTotal(ms \ {m}, order)

\* Lines 144-179: the exported row of one record
ExportRow(row, order) ==
    LET ms == {m \in mappings : m.shiftallowance_id = row.id /\ m.days > 0}
    IN [emp_id |-> row.emp_id, department |-> row.department, client |-> row.client,
        account_manager |-> row.account_manager,
        shift_details |-> {<<m.shift_type, m.days>> : m \in ms},
        duration_month |-> MonthLabel(row.duration_month),
        payroll_month |-> MonthLabel(row.payroll_month),
        total_allowance |-> ExportTotal(ms, order)]

ExportFail(code, detail) ==
    [status |-> code, detail |-> detail, data |-> {}, month |-> 0]

\* export_filtered_excel: the rows of the DataFrame (query.all() has no
\* ORDER BY: the rows are kept as a set) and the month the scan settled on
export_filtered_excel(q, order) ==
    LET base == ExportBaseQuery(q)
        found == ExportScan(base, 0)
        rows == IF q.start_month # 0 /\ q.end_month # 0
                THEN {r \in base : q.start_month <= r.duration_month
                                     /\ r.duration_month <= q.end_month}
                ELSE IF q.start_month # 0
                THEN {r \in base : r.duration_month = q.start_month}
                ELSE {r \in base : r.duration_month = found}
    IN IF q.start_month = 0 /\ q.end_month # 0
       THEN ExportFail(400, "start_month is required when end_month is provided")
       ELSE IF q.start_month # 0 /\ q.end_month # 0 /\ q.start_month > q.end_month
       THEN ExportFail(400, "start_month cannot be after end_month")
       ELSE IF q.start_month = 0 /\ q.end_month = 0 /\ found = 0
       THEN ExportFail(404, "No data found in last 12 months")
       ELSE IF rows = {}
       THEN ExportFail(404, "No records found for given filters")
       ELSE [status |-> 200, detail |-> "", data |-> {ExportRow(r, order) : r \in rows},
             month |-> IF q.start_month = 0 /\ q.end_month = 0 THEN found ELSE 0]

ExportRequest(q, order) ==
    LET res == export_filtered_excel(q, order)
    IN /\ last' = [svc |-> "export", payload |-> q, at |-> now, status |-> res.status,
                   detail |-> res.detail, data |-> res.data, queried |-> TRUE,
                   cache_get |-> FALSE, cache_set |-> FALSE,
                   missing |-> <<>>, file_path |-> ""]
       /\ UNCHANGED <<dbVars, cache, now, exports, streams, computed>>

(***************************************************************************)
(* Record stores and payloads the aggregation is applied to                *)
(***************************************************************************)
AggClients == {"Acme", "Beta"}
AggDepts == {"Ops", "Dev"}
AggMonths == {Date(2024, 12), Date(2025, 1), Date(2025, 2)}
AggDays == {<<0, 0, 0, 0>>, <<2, 0, 0, 1>>}
AggKeys == EmpIds \X AggMonths
AggPlaces == {<<"Acme", "Ops">>, <<"Acme", "Dev">>, <<"Beta", "Ops">>}
AggAttrs == {<<p[1], p[2], d>> : p \in AggPlaces, d \in AggDays}

\* Records are numbered in the order of their keys.
AggId(K, k) ==
    1 + Cardinality({j \in K : j[2] < k[2] \/ (j[2] = k[2] /\ j[1] = "E1" /\ k[1] = "E2")})

\* A store with one record per key of K, the payroll month following the
\* duration month.
AggRecords(K, f) ==
    {[id |-> AggId(K, k), emp_id |-> k[1], client |-> f[k][1], department |-> f[k][2],
      account_manager |-> "Mgr", duration_month |-> k[2], payroll_month |-> k[2] + 1] :
        k \in K}

AggMappings(K, f) ==
    UNION {{[shiftallowance_id |-> AggId(K, k), shift_type |-> ShiftTypes[i],
             days |-> f[k][3][i]] : i \in {j \in 1..4 : f[k][3][j] > 0}} : k \in K}

InitAgg ==
    /\ \E K \in {S \in SUBSET AggKeys : Cardinality(S) <= MaxRecords} :
          \E f \in [K -> AggAttrs] :
              /\ records = AggRecords(K, f)
              /\ mappings = AggMappings(K, f)
              /\ nextId = Cardinality(K) + 1
    /\ batches = <<>>
    /\ txRecords = {}
    /\ txMappings = {}
    /\ up = InitUp
    /\ errorFiles = <<>>
    /\ InitSvc

AllClients == [kind |-> "ALL", map |-> <<>>]
AbsentClients == [kind |-> "absent", map |-> <<>>]
AcmeAllDepts == [kind |-> "map", map |-> ("ACME" :> <<>>)]
AcmeOps == [kind |-> "map", map |-> ("acme" :> <<"OPS">>)]

Window(y, ms, qs, s, e) ==
    [selected_year |-> y, selected_months |-> ms, selected_quarters |-> qs,
     start_month |-> s, end_month |-> e]

Windows ==
    {Window(0, <<>>, <<>>, 0, 0),
     Window(2025, <<1>>, <<>>, 0, 0),
     Window(2025, <<1, 2>>, <<>>, 0, 0),
     Window(2025, <<>>, <<"Q1">>, 0, 0),
     Window(2024, <<>>, <<"q4">>, 0, 0),
     Window(2025, <<1>>, <<"Q1">>, 0, 0),
     Window(2025, <<>>, <<"Q1">>, Date(2025, 1), Date(2025, 2)),
     Window(0, <<>>, <<>>, Date(2024, 12), Date(2025, 2)),
     Window(0, <<>>, <<>>, Date(2025, 1), Date(2025, 2)),
     Window(0, <<>>, <<>>, Date(2025, 2), Date(2025, 1)),
     Window(0, <<1>>, <<>>, 0, 0),
     Window(2026, <<1>>, <<>>, 0, 0),
     Window(2025, <<>>, <<"Q5">>, 0, 0),
     Window(0, <<>>, <<"Q1">>, 0, 0),
     Window(0, <<1>>, <<>>, Date(2025, 1), Date(2025, 2)),
     Window(2026, <<>>, <<>>, Date(2025, 1), Date(2025, 2)),
     Window(-1, <<1>>, <<>>, 0, 0),
     Window(2025, <<>>, <<" Q1 ", " q2">>, 0, 0),
     Window(2025, <<>>, <<"Q1", "Q5">>, 0, 0)}

Payload(c, w, e) ==
    [clients |-> c, selected_year |-> w.selected_year,
     selected_months |-> w.selected_months, selected_quarters |-> w.selected_quarters,
     start_month |-> w.start_month, end_month |-> w.end_month,
     emp_id |-> e, account_manager |-> ""]

DefaultWindow == Window(0, <<>>, <<>>, 0, 0)

SummaryPayloads ==
    {Payload(c, w, "") : c \in {AllClients, AcmeOps}, w \in Windows}
    \cup {Payload(c, DefaultWindow, "") : c \in {AbsentClients, AcmeAllDepts}}
    \cup {Payload(AllClients, w, "e1") :
             w \in {DefaultWindow, Window(2025, <<>>, <<"Q1">>, 0, 0)}}

DownloadPayloads ==
    {Payload(c, w, "") :
        c \in {AllClients, AcmeOps},
        w \in {DefaultWindow,
               Window(2025, <<1>>, <<>>, 0, 0),
               Window(2025, <<>>, <<"Q1">>, 0, 0),
               Window(0, <<>>, <<>>, Date(2024, 12), Date(2025, 2)),
               Window(0, <<>>, <<>>, Date(2025, 1), Date(2025, 2)),
               Window(0, <<>>, <<>>, Date(2025, 2), Date(2025, 1)),
               Window(0, <<1>>, <<>>, 0, 0),
               Window(0, <<1>>, <<>>, Date(2025, 1), Date(2025, 2)),
               Window(2026, <<>>, <<>>, Date(2025, 1), Date(2025, 2)),
               Window(2026, <<1>>, <<>>, 0, 0),
               Window(-1, <<>>, <<"Q1">>, 0, 0)}}

\* One request is applied to each store.
ExportParams ==
    {NoExportParams,
     [NoExportParams EXCEPT !.emp_id = " E1 "],
     [NoExportParams EXCEPT !.client = " acme ", !.department = "OPS"],
     [NoExportParams EXCEPT !.start_month = Date(2024, 12), !.end_month = Date(2025, 1)],
     [NoExportParams EXCEPT !.start_month = Date(2025, 2)]}

NextAgg ==
    \/ \E p \in SummaryPayloads : last = NoCall /\ SummaryRequest(p)
    \/ \E p \in DownloadPayloads : last = NoCall /\ DownloadRequest(p)
    \/ \E q \in ExportParams, order \in RateOrders : last = NoCall /\ ExportRequest(q, order)

SpecAgg == InitAgg /\ [][NextAgg]_vars

(***************************************************************************)
(* Record stores and requests the filters are applied to                   *)
(***************************************************************************)
\* date.today(), first of the month
Today == Date(CurrentYear, CurrentMonth)

FilterMonths == {Today - 12, Today - 11, Today - 1, Today}
FilterKeys == EmpIds \X FilterMonths
FilterAttrs ==
    {<<p[1], p[2], <<2, 0, 0, 1>>>> :
        p \in {<<"Acme", "Ops">>, <<"Acme", "Dev">>, <<"Acme West", "Ops">>, <<"Beta", "Ops">>}}

InitFilters ==
    /\ \E K \in {S \in SUBSET FilterKeys : Cardinality(S) <= MaxRecords} :
          \E f \in [K -> FilterAttrs] :
              /\ records = AggRecords(K, f)
              /\ mappings = AggMappings(K, f)
              /\ nextId = Cardinality(K) + 1
    /\ batches = <<>>
    /\ txRecords = {}
    /\ txMappings = {}
    /\ up = InitUp
    /\ errorFiles = <<>>
    /\ InitSvc

\* Requests for last month with a client mapping.
FilterPayloads ==
    {Payload(c, Window(YearOf(Today - 1), <<MonthOf(Today - 1)>>, <<>>, 0, 0), "") :
        c \in {AcmeOps, AcmeAllDepts, [kind |-> "map", map |-> ("Beta" :> <<"ops", "dev">>)]}}

FilterExportParams ==
    {NoExportParams,
     [NoExportParams EXCEPT !.emp_id = " E1 "],
     [NoExportParams EXCEPT !.client = " acme ", !.department = "OPS"],
     [NoExportParams EXCEPT !.client = "BETA", !.account_manager = "mgr"],
     [NoExportParams EXCEPT !.start_month = Today - 12, !.end_month = Today - 11],
     [NoExportParams EXCEPT !.start_month = Today - 12],
     [NoExportParams EXCEPT !.end_month = Today]}

NextFilters ==
    \/ \E p \in FilterPayloads : last = NoCall /\ SummaryRequest(p)
    \/ \E p \in FilterPayloads : last = NoCall /\ DownloadRequest(p)
    \/ \E q \in FilterExportParams, order \in RateOrders :
          last = NoCall /\ ExportRequest(q, order)

SpecFilters == InitFilters /\ [][NextFilters]_vars

(***************************************************************************)
(* Two download requests served at the same time                           *)
(***************************************************************************)
\* The route is a plain def: each request runs the service in a worker
\* thread, and the FileResponse it returns reads the path afterwards, when
\* the response is sent.
ConcurrentKeys == {<<"E1", Today - 1>>, <<"E2", Today - 1>>}
ConcurrentAttrs ==
    {<<p[1], p[2], <<2, 0, 0, 1>>>> : p \in {<<"Acme", "Ops">>, <<"Acme", "Dev">>, <<"Beta", "Ops">>}}

InitConcurrent ==
    /\ \E f \in [ConcurrentKeys -> ConcurrentAttrs] :
          /\ records = AggRecords(ConcurrentKeys, f)
          /\ mappings = AggMappings(ConcurrentKeys, f)
          /\ nextId = Cardinality(ConcurrentKeys) + 1
    /\ batches = <<>>
    /\ txRecords = {}
    /\ txMappings = {}
    /\ up = InitUp
    /\ errorFiles = <<>>
    /\ InitSvc

\* client_summary_download_service up to line 170: the rows are selected
\* and the ExcelWriter opens the export file, or the service raises.
OpenWriter(i, p) ==
    /\ streams[i].pc = "idle"
    /\ LET res == client_summary_download_service(p)
       IN IF res.status = 200
          THEN /\ streams' = [streams EXCEPT ![i] =
                                [pc |-> "writing", payload |-> p, status |-> 200,
                                 df |-> res.data, file_path |-> res.file_path,
                                 sent |-> OpenedFile]]
               /\ exports' = (res.file_path :> OpenedFile) @@ exports
          ELSE /\ streams' = [streams EXCEPT ![i] =
                                [IdleStream EXCEPT !.pc = "raised", !.payload = p,
                                                   !.status = res.status]]
               /\ UNCHANGED exports
    /\ UNCHANGED <<dbVars, cache, now, last, computed>>

\* Lines 170-173: the workbook is saved on leaving the with block and the
\* service returns the path.
CloseWriter(i) ==
    /\ streams[i].pc = "writing"
    /\ exports' = [exports EXCEPT ![streams[i].file_path] = WrittenFile(streams[i].df)]
    /\ streams' = [streams EXCEPT ![i].pc = "returned"]
    /\ UNCHANGED <<dbVars, cache, now, last, computed>>

\* client_summary_download_routes.py lines 42-51: FileResponse(path=file_path)
\* sends whatever the path holds when the response goes out.
SendFile(i) ==
    /\ streams[i].pc = "returned"
    /\ streams' = [streams EXCEPT ![i].pc = "sent",
                                  ![i].sent = exports[streams[i].file_path]]
    /\ UNCHANGED <<dbVars, cache, now, last, exports, computed>>

NextConcurrent ==
    \/ \E i \in 1..2, p \in FilterPayloads : OpenWriter(i, p)
    \/ \E i \in 1..2 : CloseWriter(i)
    \/ \E i \in 1..2 : SendFile(i)

SpecConcurrent == InitConcurrent /\ [][NextConcurrent]_vars

(***************************************************************************)
(* The two month_range functions applied to pairs of months                *)
(***************************************************************************)
RangeDates == Date(2024, 11)..Date(2026, 2)

\* Both month_range functions are called with the same start and end.
MonthRangeCall(s, e) ==
    LET sm == month_range(s, e)
        dl == download_month_range(s, e)
    IN /\ last' = [svc |-> "month_range", payload |-> [start_month |-> s, end_month |-> e],
                   at |-> now,
                   status |-> IF sm.err # "" \/ dl.err # "" THEN 400 ELSE 200,
                   detail |-> sm.err, data |-> [summary |-> sm, download |-> dl],
                   queried |-> FALSE, cache_get |-> FALSE, cache_set |-> FALSE,
                   missing |-> <<>>, file_path |-> ""]
       /\ UNCHANGED <<dbVars, cache, now, exports, streams, computed>>

NextRange == \E s \in RangeDates, e \in RangeDates : last = NoCall /\ MonthRangeCall(s, e)

SpecRange == Init /\ [][NextRange]_vars

(***************************************************************************)
(* Ingestion claims                                                        *)
(***************************************************************************)
\* The call has returned or raised.
UploadDone == up.pc = "idle" /\ up.calls > 0

\* An ingestion attempt: a call that got past the file-type check.
AttemptDone == UploadDone /\ up.file.filename_ok

\* Section 4.1 step 4: a row is valid when its four day counts are numeric
\* and its two months look like Feb'25.
RowIsValid(r) ==
    /\ \A i \in 1..4 : r[ShiftCols[i]].num
    /\ \A i \in 1..2 :
          /\ r[MonthCols[i]].abbr \in {"Jan", "Feb", "Mar", "Apr", "May", "Jun",
                                        "Jul", "Aug", "Sep", "Oct", "Nov", "Dec"}
          /\ r[MonthCols[i]].yy >= 0 /\ r[MonthCols[i]].yy < 100

ValidIdx == {i \in 1..Len(up.file.rows) : RowIsValid(up.file.rows[i])}
InvalidIdx == {i \in 1..Len(up.file.rows) : ~RowIsValid(up.file.rows[i])}

\* What the attempt left in the Record Store.
AddedRecords == {r \in records : r.id >= up.firstId}
AddedMappings == {m \in mappings : m.shiftallowance_id >= up.firstId}

\* Every valid row of the file is a stored record of this attempt.
ValidRowsPersisted ==
    /\ Cardinality(AddedRecords) = Cardinality(ValidIdx)
    /\ \A i \in ValidIdx : \E r \in AddedRecords : r.emp_id = up.file.rows[i].emp_id

\* The error report of this attempt holds exactly the invalid rows, in file
\* order, each with the columns that failed.
ReportHoldsInvalidRows ==
    /\ up.batch \in DOMAIN errorFiles
    /\ LET rep == errorFiles[up.batch]
       IN /\ Len(rep) = Cardinality(InvalidIdx)
          /\ \A k \in 1..Len(rep) :
                /\ ~RowIsValid(rep[k].row)
                /\ \E i \in InvalidIdx :
                      /\ rep[k].row = up.file.rows[i]
                      /\ Cardinality({j \in InvalidIdx : j < i}) = k - 1
                /\ {rep[k].error[j] : j \in 1..Len(rep[k].error)} =
                       {ShiftCols[j] : j \in {x \in 1..4 : ~rep[k].row[ShiftCols[x]].num}}
                       \cup {MonthCols[j] : j \in
                               {x \in 1..2 : ~month_pattern(rep[k].row[MonthCols[x]])}}

TerminalStatus == {"processed", "partially_processed", "failed"}

\* C4, the final status: every ingestion attempt has one UploadBatch row,
\* 'processing' while it runs and afterwards 'processed' iff every row was
\* valid and persisted, 'partially_processed' iff some row was valid and
\* persisted and some row invalid, 'failed' iff the attempt raised.
C4_StatusOutcome ==
    /\ up.pc # "idle" => up.batch \in DOMAIN batches /\ batches[up.batch].status = "processing"
    /\ AttemptDone =>
          /\ up.batch \in DOMAIN batches
          /\ LET st == batches[up.batch].status
             IN /\ st \in TerminalStatus
                /\ st = "processed" <=>
                      (ValidIdx # {} /\ InvalidIdx = {} /\ ValidRowsPersisted)
                /\ st = "partially_processed" <=>
                      (AddedRecords # {} /\ InvalidIdx # {})
                /\ st = "failed" <=> up.result.kind = "raise"

\* C4, the status never leaves a terminal value.
C4_TerminalIsFinal ==
    [][\A b \in DOMAIN batches :
          batches[b].status \in TerminalStatus => batches'[b].status = batches[b].status]_vars

\* C4: every ingestion attempt creates one UploadBatch row in 'processing'
\* and leaves it in exactly one terminal status that matches what happened
\* to the rows, and a terminal status never changes.
C4_StatusLifecycle == [](C4_StatusOutcome) /\ C4_TerminalIsFinal

\* C5: for every accepted file the reported inserted count is the number of
\* valid rows and the number of records the attempt stored; for a mixed
\* file the error report holds exactly the invalid rows with their reasons,
\* records_skipped counts them, inserted + skipped is the row count and the
\* download link names the error file written.
C5_AcceptedCounts ==
    (UploadDone /\ up.result.kind \in {"ok", "partial"}) =>
        /\ up.result.records_inserted = Cardinality(ValidIdx)
        /\ ValidRowsPersisted
        /\ (InvalidIdx = {}) => up.result.kind = "ok" /\ batches[up.batch].status = "processed"
        /\ (InvalidIdx # {}) =>
              /\ up.result.kind = "partial"
              /\ batches[up.batch].status = "partially_processed"
              /\ up.result.records_skipped = Cardinality(InvalidIdx)
              /\ up.result.records_inserted + up.result.records_skipped = Len(up.file.rows)
              /\ up.result.download_link = up.batch
              /\ ReportHoldsInvalidRows

\* C5 witness: a mixed file was accepted, one of its rows rejected for two reasons.
C5_Witness ==
    /\ UploadDone
    /\ up.result.kind = "partial"
    /\ ValidIdx # {}
    /\ \E k \in 1..Len(errorFiles[up.batch]) : Len(errorFiles[up.batch][k].error) = 2

C7_FailedLeavesNothing ==
    (AttemptDone /\ batches[up.batch].status = "failed") =>
        AddedRecords = {} /\ AddedMappings = {}

(***************************************************************************)
(* Aggregation claims                                                      *)
(***************************************************************************)
\* The sum of a function's values.
RECURSIVE SumFn(_)
SumFn(f) ==
    IF DOMAIN f = {} THEN 0
    ELSE LET x == CHOOSE y \in DOMAIN f : TRUE
         IN f[x] + SumFn([z \in DOMAIN f \ {x} |-> f[z]])

SumSeq(seq, Val(_)) == SumFn([i \in 1..Len(seq) |-> Val(seq[i])])

SumOver(S, Val(_)) == SumFn([x \in S |-> Val(x)])

SummaryOk == last.svc = "summary" /\ last.status = 200

\* The populated period blocks of the last summary.
Populated == {lab \in DOMAIN last.data : ~last.data[lab].message}

\* C1 for one period block.
BlockAddsUp(blk) ==
    /\ \A c \in DOMAIN blk.clients : \A d \in DOMAIN blk.clients[c].departments :
          LET dept == blk.clients[c].departments[d]
          IN /\ dept.dept_total = SumSeq(dept.employees, LAMBDA e : e.total)
             /\ \A t \in ShiftTypeSet :
                   dept.shift[t] = SumSeq(dept.employees, LAMBDA e : e.shift[t])
    /\ \A c \in DOMAIN blk.clients :
          LET cl == blk.clients[c]
          IN /\ cl.client_total =
                    SumOver(DOMAIN cl.departments, LAMBDA d : cl.departments[d].dept_total)
             /\ \A t \in ShiftTypeSet :
                   cl.shift[t] =
                    SumOver(DOMAIN cl.departments, LAMBDA d : cl.departments[d].shift[t])
    /\ blk.month_total.total_allowance =
           SumOver(DOMAIN blk.clients, LAMBDA c : blk.clients[c].client_total)
    /\ \A t \in ShiftTypeSet :
          blk.month_total.shift[t] =
              SumOver(DOMAIN blk.clients, LAMBDA c : blk.clients[c].shift[t])

\* C1: in every period of a returned summary each department total is the
\* sum of its employees' totals, each client total the sum of its
\* departments', the month total the sum of its clients', overall and per
\* shift type.
C1_TotalsAddUp ==
    SummaryOk => \A lab \in Populated : BlockAddsUp(last.data[lab])

\* C1 witness: a summary with a period holding two paid employees in two
\* departments of one client.
C1_Witness ==
    /\ SummaryOk
    /\ \E lab \in Populated : \E c \in DOMAIN last.data[lab].clients :
          /\ Cardinality(DOMAIN last.data[lab].clients[c].departments) = 2
          /\ \A d \in DOMAIN last.data[lab].clients[c].departments :
                last.data[lab].clients[c].departments[d].dept_total > 0
          /\ last.data[lab].month_total.shift["PRIME"] > 0

EmpIdsOfDept(dept) == {dept.employees[i].emp_id : i \in 1..Len(dept.employees)}
EmpIdsOfClient(cl) == UNION {EmpIdsOfDept(cl.departments[d]) : d \in DOMAIN cl.departments}
EmpIdsOfBlock(blk) == UNION {EmpIdsOfClient(blk.clients[c]) : c \in DOMAIN blk.clients}

\* C2: every head count is the number of distinct employee ids that
\* contributed a row to that department, client or period.
C2_HeadCountsDistinct ==
    SummaryOk => \A lab \in Populated :
        LET blk == last.data[lab]
        IN /\ blk.month_total.total_head_count = Cardinality(EmpIdsOfBlock(blk))
           /\ \A c \in DOMAIN blk.clients :
                 /\ blk.clients[c].client_head_count = Cardinality(EmpIdsOfClient(blk.clients[c]))
                 /\ \A d \in DOMAIN blk.clients[c].departments :
                       blk.clients[c].departments[d].dept_head_count =
                           Cardinality(EmpIdsOfDept(blk.clients[c].departments[d]))

\* The client selector of a request, normalised.
RequestClients(p) ==
    IF p.clients.kind = "map" THEN NormalizedClients(p.clients.map) ELSE <<>>

IsRange(p) == p.start_month # 0 /\ p.end_month # 0

\* The months of an inclusive range.
RangeMonths(p) == {d \in p.start_month..p.end_month : TRUE}

\* The months of a range in which the request matches no row.
EmptyMonthsOfRange(svc, p) ==
    {d \in RangeMonths(p) :
        IF svc = "download"
        THEN fetch_rows(YearOf(d), <<MonthOf(d)>>, RequestClients(p)) = {}
        ELSE SummaryRows(p, RequestClients(p), {d}) = {}}

\* C3: a month-range request fails with 404 naming every month of the range
\* that has no matching row.
C3_RangeIsStrict ==
    (last.svc \in {"summary", "download"} /\ IsRange(last.payload)
        /\ last.payload.start_month <= last.payload.end_month
        /\ last.payload.selected_quarters = <<>>
        /\ EmptyMonthsOfRange(last.svc, last.payload) # {}) =>
            /\ last.status = 404
            /\ {MonthLabel(d) : d \in EmptyMonthsOfRange(last.svc, last.payload)}
                   \subseteq Elems(last.missing)

\* A request for a single period: the default one, or a year with one month.
IsSinglePeriod(p) ==
    /\ ~IsRange(p) /\ p.selected_quarters = <<>>
    /\ \/ (p.selected_year = 0 /\ p.selected_months = <<>>
              /\ p.start_month = 0 /\ p.end_month = 0)
       \/ (p.selected_year # 0 /\ Len(p.selected_months) = 1)

\* C9: a single-period request that matches no row fails with 404 and
\* stores nothing in the cache.
C9_SinglePeriodNoData ==
    (last.svc = "summary" /\ IsSinglePeriod(last.payload)) =>
        /\ last.status = 200 => Populated = DOMAIN last.data
        /\ (last.status # 200 \/ Populated # DOMAIN last.data) =>
              ~last.cache_set /\ cache = <<>>

\* The periods a payload asks for: label -> months.
RequestedPeriods(p) ==
    LET y == p.selected_year
        qs == p.selected_quarters
        ms == p.selected_months
        quarters == IF y = 0 THEN <<>> ELSE
            [lab \in {<<Date(y, quarter_to_months(qs[i])[1]), Date(y, quarter_to_months(qs[i])[3])>> :
                         i \in 1..Len(qs)} |-> lab[1]..lab[2]]
        months == IF y = 0 THEN <<>> ELSE
            [lab \in {MonthLabel(Date(y, ms[i])) : i \in 1..Len(ms)} |-> {lab[1]}]
        range == IF IsRange(p)
                 THEN [lab \in {MonthLabel(d) : d \in RangeMonths(p)} |-> {lab[1]}]
                 ELSE <<>>
        latest == IF qs = <<>> /\ ms = <<>> /\ ~IsRange(p) /\ LatestMonth # 0
                  THEN (MonthLabel(LatestMonth) :> {LatestMonth}) ELSE <<>>
    IN quarters @@ months @@ range @@ latest

\* C10: the keys of a returned summary are the requested period labels, a
\* label holds the placeholder iff no matching row fell in its period, for
\* every combination of time-window fields.
C10_LabelsAreRequested ==
    SummaryOk =>
        LET req == RequestedPeriods(last.payload)
        IN /\ DOMAIN last.data = DOMAIN req
           /\ \A lab \in DOMAIN req \cap DOMAIN last.data :
                 last.data[lab].message <=>
                     SummaryRows(last.payload, RequestClients(last.payload), req[lab]) = {}

(***************************************************************************)
(* Cache claims: uploads, the clock and summary requests interleaved       *)
(***************************************************************************)
CacheFiles ==
    {[filename_ok |-> TRUE, columns_ok |-> TRUE,
      rows |-> <<FileRow("E1", MonthCell("Jan", 25), NumCell(2), NumCell(1))>>],
     [filename_ok |-> TRUE, columns_ok |-> TRUE,
      rows |-> <<FileRow("E2", MonthCell("Jan", 25), NumCell(2), NumCell(1)),
                 FileRow("E1", MonthCell("jan", 25), NumCell(2), NumCell(1))>>]}

CachePayloads ==
    {NoPayload,
     Payload(AllClients, DefaultWindow, ""),
     Payload(AllClients, DefaultWindow, "e1"),
     Payload(AcmeAllDepts, DefaultWindow, ""),
     Payload(AllClients, Window(2025, <<1>>, <<>>, 0, 0), "")}

NextCache ==
    \/ \E f \in CacheFiles : StartUpload(f)
    \/ ReadAndValidate
    \/ InsertRow
    \/ CommitRows
    \/ \E written \in BOOLEAN : WriteErrorReport(written)
    \/ FinishProcessed
    \/ ExceptHandler
    \/ Tick
    \/ \E p \in CachePayloads : SummaryRequest(p)

SpecCache == Init /\ [][NextCache]_vars

\* The step is a call of client_summary_service.
SummaryStep == last' # last /\ last'.svc = "summary"

\* The entry computed by the last default request that queried the store is
\* still within its 24 hours.
EntryIsFresh == computed # <<>> /\ now < computed.at + CACHE_TTL

\* C8: a default request made less than 24h after the default request that
\* computed the entry returns that request's output without querying the
\* Record Store, whatever was uploaded since; a default request made when no
\* entry is fresh queries the Record Store; a non-default request neither
\* reads nor writes the entry.
C8_CacheContract ==
    [][SummaryStep =>
        IF IsDefaultRequest(last'.payload)
        THEN IF EntryIsFresh
             THEN /\ last'.status = 200
                  /\ last'.data = computed.data
                  /\ ~last'.queried
                  /\ cache' = cache
             ELSE /\ last'.queried
                  /\ last'.status = 200 =>
                        /\ last'.data = client_summary_service(last'.payload).data
                        /\ cache' # <<>>
                        /\ cache'.expire_time = now + CACHE_TTL
        ELSE /\ cache' = cache
             /\ ~last'.cache_get
             /\ ~last'.cache_set]_vars

\* C8 witness: a default request answered from the entry although an upload
\* has since changed what the Record Store would give.
C8_Witness ==
    /\ last.svc = "summary"
    /\ IsDefaultRequest(last.payload)
    /\ last.status = 200
    /\ ~last.queried
    /\ last.at > computed.at
    /\ up.pc = "idle"
    /\ Populated # {}
    /\ \E lab \in Populated :
          last.data[lab].month_total.total_head_count < Cardinality(records)

(***************************************************************************)
(* Time-window claims                                                      *)
(***************************************************************************)
\* The last call was a summary or a download request.
WindowCall == last.svc \in {"summary", "download"}

MissingYearDetails ==
    {"selected_year is mandatory",
     "selected_year is mandatory when using selected_months or selected_quarters"}

InvalidYearDetails ==
    {"selected_year must be greater than 0", "selected_year cannot be in the future"}

\* C11: a summary or download request with selected_months or
\* selected_quarters and no selected_year fails with HTTP 400 (MissingYear),
\* whatever else the payload carries, and produces no output or file.
C11_MissingYear ==
    (WindowCall /\ last.payload.selected_year = 0
        /\ (last.payload.selected_months # <<>> \/ last.payload.selected_quarters # <<>>)) =>
            /\ last.status = 400
            /\ last.detail \in MissingYearDetails
            /\ last.data = <<>>
            /\ last.file_path = ""
            /\ exports = <<>>

\* C12: a summary or download request whose selected_year is not positive
\* or lies after the current year fails with HTTP 400 (InvalidYear) in the
\* month, quarter and range modes.
C12_InvalidYear ==
    (WindowCall /\ last.payload.selected_year # 0
        /\ (last.payload.selected_year < 0 \/ last.payload.selected_year > CurrentYear)
        /\ (last.payload.selected_months # <<>> \/ last.payload.selected_quarters # <<>>
               \/ IsRange(last.payload))) =>
            /\ last.status = 400
            /\ last.detail \in InvalidYearDetails

\* Section 4.2: the quarter a token names, ignoring case and surrounding
\* spaces (0: none).
QuarterOf(q) ==
    CASE q \in {"Q1", "q1", " Q1 ", " q1"} -> 1
      [] q \in {"Q2", "q2", " Q2 ", " q2"} -> 2
      [] q \in {"Q3", "q3"} -> 3
      [] q \in {"Q4", "q4"} -> 4
      [] OTHER -> 0

\* A request in quarter mode with a valid year.
IsQuarterRequest(p) ==
    /\ p.selected_quarters # <<>> /\ p.selected_months = <<>> /\ ~IsRange(p)
    /\ p.selected_year > 0 /\ p.selected_year <= CurrentYear

\* The amount the summary credits for a set of joined rows.
RowsTotal(rows) == SumOver(rows, LAMBDA r : r.days * r.amount)

\* The employees listed anywhere in a period block.
BlockEmployees(blk) ==
    IF blk.message THEN {} ELSE EmpIdsOfBlock(blk)

\* C13: in a quarter request with a valid year Y every token Q1..Q4 (any
\* case, spaces around it ignored) is reported under the one label from the
\* quarter's first to its last month of Y, which accumulates exactly the
\* matching rows of these three months; any other token fails with HTTP 400
\* (InvalidQuarter).
C13_QuarterLabels ==
    (last.svc = "summary" /\ IsQuarterRequest(last.payload)) =>
        LET p == last.payload
            qs == p.selected_quarters
            y == p.selected_year
            Months(k) == Date(y, 3 * k - 2)..Date(y, 3 * k)
            Rows(k) == SummaryRows(p, RequestClients(p), Months(k))
        IN IF \E i \in 1..Len(qs) : QuarterOf(qs[i]) = 0
           THEN /\ last.status = 400
                /\ last.detail = "Invalid quarter (expected Q1-Q4)"
                /\ last.data = <<>>
           ELSE /\ last.status = 200
                /\ DOMAIN last.data =
                       {<<Date(y, 3 * QuarterOf(qs[i]) - 2), Date(y, 3 * QuarterOf(qs[i]))>> :
                           i \in 1..Len(qs)}
                /\ \A i \in 1..Len(qs) :
                      LET k == QuarterOf(qs[i])
                          blk == last.data[<<Date(y, 3 * k - 2), Date(y, 3 * k)>>]
                      IN /\ blk.message <=> Rows(k) = {}
                         /\ blk.month_total.total_allowance = RowsTotal(Rows(k))
                         /\ BlockEmployees(blk) = {r.emp_id : r \in Rows(k)}

\* C13 witness: tokens " Q1 " and " q2" of 2025 answered with two labels, the
\* first holding rows of two different months of the quarter.
C13_Witness ==
    /\ SummaryOk
    /\ last.payload.selected_quarters = <<" Q1 ", " q2">>
    /\ DOMAIN last.data = {<<Date(2025, 1), Date(2025, 3)>>, <<Date(2025, 4), Date(2025, 6)>>}
    /\ last.data[<<Date(2025, 4), Date(2025, 6)>>].message
    /\ ~last.data[<<Date(2025, 1), Date(2025, 3)>>].message
    /\ {r.duration_month : r \in SummaryRows(last.payload, RequestClients(last.payload),
                                             Date(2025, 1)..Date(2025, 3))}
           = {Date(2025, 1), Date(2025, 2)}

\* A request without year, months, quarters and range.
IsDefaultWindow(p) ==
    /\ p.selected_year = 0 /\ p.selected_months = <<>> /\ p.selected_quarters = <<>>
    /\ p.start_month = 0 /\ p.end_month = 0

\* The same request, asking for the latest stored month by name.
LatestMonthPayload(p) ==
    [p EXCEPT !.selected_year = YearOf(LatestMonth),
              !.selected_months = <<MonthOf(LatestMonth)>>]

\* C14: a summary or download request without any time window is answered
\* for the single latest duration month of the Record Store, with either
\* client selector shape and in both services.
C14_DefaultIsLatestMonth ==
    (WindowCall /\ IsDefaultWindow(last.payload) /\ records # {}) =>
        IF last.svc = "summary"
        THEN /\ last.status = 200
             /\ DOMAIN last.data = {MonthLabel(LatestMonth)}
        ELSE LET named == client_summary_download_service(LatestMonthPayload(last.payload))
             IN last.status = named.status /\ last.data = named.data

\* C16: a non-default download request writes its spreadsheet under a name
\* other than the fixed name of the default request.
C16_NonDefaultExportName ==
    (last.svc = "download" /\ last.status = 200 /\ ~IsDefaultRequest(last.payload)) =>
        last.file_path # "exports/client_summary.xlsx"

(***************************************************************************)
(* Rate claims                                                             *)
(***************************************************************************)
\* The stored record with a given employee and duration month.
RecordOf(emp, dm) == CHOOSE r \in records : r.emp_id = emp /\ r.duration_month = dm

\* Section 3, ShiftRate: a mapping's amount is its days times the rate of
\* its shift type for the record's payroll year.
PayrollYearAmount(r, shift_type, days) ==
    days * RateFor(shift_type, YearOf(r.payroll_month))

\* The payroll-year total of one record.
PayrollYearTotal(r) ==
    SumOver({m \in mappings : m.shiftallowance_id = r.id},
            LAMBDA m : PayrollYearAmount(r, m.shift_type, m.days))

\* The months a label of the summary covers.
LabelMonths(lab) == IF Len(lab) = 1 THEN {lab[1]} ELSE lab[1]..lab[2]

\* C17: every amount of the summary, download and flat-export services is
\* days times the rate of the shift type for the record's payroll year, so
\* the three services report the same total for a record.
C17_PayrollYearRate ==
    /\ SummaryOk =>
          \A lab \in Populated :
              last.data[lab].month_total.total_allowance =
                  SumOver(SummaryRows(last.payload, RequestClients(last.payload),
                                      LabelMonths(lab)),
                          LAMBDA row : PayrollYearAmount(
                                           CHOOSE r \in records : r.id = row.rid,
                                           row.shift_type, row.days))
    /\ (last.svc = "download" /\ last.status = 200) =>
          \A k \in 1..Len(last.data) :
              last.data[k].total_allowance =
                  PayrollYearTotal(RecordOf(last.data[k].employee_id,
                                            last.data[k].year_month[1]))
    /\ (last.svc = "export" /\ last.status = 200) =>
          \A row \in last.data :
              row.total_allowance =
                  PayrollYearTotal(RecordOf(row.emp_id, row.duration_month[1]))

(***************************************************************************)
(* Filter claims                                                           *)
(***************************************************************************)
\* Section 4.2: a record passes a client -> departments mapping when its
\* client is one of the mapping's clients, whatever the case, and that
\* client's list is empty or names the record's department.
PassesClientMapping(cmap, r) ==
    \E c \in DOMAIN cmap :
        /\ Lower(c) = Lower(r.client)
        /\ \/ cmap[c] = <<>>
           \/ \E i \in 1..Len(cmap[c]) : Lower(cmap[c][i]) = Lower(r.department)

\* The records a month-list request with a client mapping has to report.
ExpectedRecords(p) ==
    {r \in records :
        /\ r.duration_month \in {Date(p.selected_year, p.selected_months[i]) :
                                    i \in 1..Len(p.selected_months)}
        /\ PassesClientMapping(p.clients.map, r)
        /\ \E m \in mappings : m.shiftallowance_id = r.id}

\* The (client, department, employee) entries of a period block.
BlockEntries(blk) ==
    IF blk.message THEN {}
    ELSE UNION {UNION {{<<Lower(c), Lower(d), e>> :
                           e \in EmpIdsOfDept(blk.clients[c].departments[d])} :
                       d \in DOMAIN blk.clients[c].departments} :
                c \in DOMAIN blk.clients}

\* C15: with a client -> departments mapping, the summary and the download
\* service report exactly the records whose client equals one of the
\* mapping's clients (any case) and whose department is in that client's
\* list or the list is empty; a client whose name merely contains a
\* requested name does not pass.
C15_ClientMappingFilter ==
    (WindowCall /\ last.payload.clients.kind = "map"
        /\ last.payload.selected_months # <<>> /\ last.payload.selected_year # 0
        /\ last.payload.selected_quarters = <<>> /\ ~IsRange(last.payload)) =>
        LET exp == ExpectedRecords(last.payload)
        IN IF last.svc = "summary"
           THEN last.status = 200 =>
                   \A lab \in DOMAIN last.data :
                       BlockEntries(last.data[lab]) =
                           {<<Lower(r.client), Lower(r.department), r.emp_id>> :
                               r \in {x \in exp : x.duration_month = lab[1]}}
           ELSE /\ last.status = 200 =>
                      {<<last.data[k].year_month, last.data[k].employee_id,
                         last.data[k].client>> : k \in 1..Len(last.data)}
                          = {<<MonthLabel(r.duration_month), r.emp_id, r.client>> : r \in exp}
                /\ last.status = 404 => exp = {}

\* The records that pass the entity filters of an export call.
EntityMatches(q) ==
    {r \in records :
        /\ q.emp_id # "" => r.emp_id = Trim(q.emp_id)
        /\ q.account_manager # "" => Lower(r.account_manager) = Lower(Trim(q.account_manager))
        /\ q.department # "" => Lower(r.department) = Lower(Trim(q.department))
        /\ q.client # "" => Lower(r.client) = Lower(Trim(q.client))}

\* The matching records of the current month and the 11 months before it.
RecentMatches(q) ==
    {r \in EntityMatches(q) : Today - 11 <= r.duration_month /\ r.duration_month <= Today}

\* C18: without start_month and end_month the export holds the matching
\* records of the most recent month, among the current month and the 11
\* before it, that has a matching record, and only those; it fails with
\* HTTP 404 iff none of the 12 months has one.
C18_ExportLatestOfTwelve ==
    (last.svc = "export" /\ last.payload.start_month = 0 /\ last.payload.end_month = 0) =>
        LET recent == RecentMatches(last.payload)
        IN IF recent = {}
           THEN last.status = 404 /\ last.data = {}
           ELSE LET latest == CHOOSE m \in {r.duration_month : r \in recent} :
                                  \A r \in recent : r.duration_month <= m
                IN /\ last.status = 200
                   /\ {<<row.emp_id, row.duration_month, row.client, row.department>> :
                          row \in last.data}
                        = {<<r.emp_id, MonthLabel(latest), r.client, r.department>> :
                              r \in {x \in recent : x.duration_month = latest}}

\* C18 witness: a filtered export settled on the oldest of the 12 months
\* while a later month holds a record the filters reject.
C18_Witness ==
    /\ last.svc = "export" /\ last.status = 200
    /\ last.payload.start_month = 0 /\ last.payload.end_month = 0
    /\ last.payload.emp_id # ""
    /\ \A row \in last.data : row.duration_month = MonthLabel(Today - 11)
    /\ \E r \in records \ EntityMatches(last.payload) : r.duration_month > Today - 11

(***************************************************************************)
(* Uniqueness claims                                                       *)
(***************************************************************************)
\* The (employee id, duration_month) key of a valid row of the file.
FileKey(i) ==
    <<up.file.rows[i].emp_id,
      Date(2000 + up.file.rows[i].duration_month.yy,
           MONTH_MAP[up.file.rows[i].duration_month.abbr])>>

\* The records stored before the current upload started.
StoredBefore == {r \in records : r.id < up.firstId}

\* A valid row of the file repeats a stored record or another valid row.
FileHasDuplicate ==
    \/ \E i \in ValidIdx : \E r \in StoredBefore : <<r.emp_id, r.duration_month>> = FileKey(i)
    \/ \E i, j \in ValidIdx : i # j /\ FileKey(i) = FileKey(j)

\* C19: the Record Store never holds two records with the same (employee
\* id, duration_month); an upload with a valid row that repeats a stored
\* record or another of its rows stores nothing at any moment, and ends
\* with HTTP 400 (DuplicateRecord) and its UploadBatch 'failed'.
C19_UniqueRecords ==
    /\ \A r1, r2 \in records :
          (r1.emp_id = r2.emp_id /\ r1.duration_month = r2.duration_month) => r1 = r2
    /\ (up.calls > 0 /\ up.file.filename_ok /\ up.file.columns_ok /\ FileHasDuplicate) =>
          /\ AddedRecords = {} /\ AddedMappings = {}
          /\ up.pc = "idle" =>
                /\ up.result.kind = "raise" /\ up.result.code = 400
                /\ up.exc = "integrity_error"
                /\ batches[up.batch].status = "failed"

\* The key a row of the file names, valid or not (0 for no month).
RawKey(i) == <<up.file.rows[i].emp_id, parse_month_format(up.file.rows[i].duration_month)>>

\* Any row of the file, valid or not, repeats a stored record or another row.
FileRepeatsKey ==
    LET keyed == {i \in 1..Len(up.file.rows) : RawKey(i)[2] # 0}
    IN \/ \E i \in keyed : \E r \in StoredBefore : <<r.emp_id, r.duration_month>> = RawKey(i)
       \/ \E i, j \in keyed : i # j /\ RawKey(i) = RawKey(j)

\* C19 as stated: an upload with any row that repeats the key of a stored
\* record or of another of its rows stores nothing and ends with HTTP 400
\* and its UploadBatch 'failed'.
C19_AnyRepeatedKeyFails ==
    (up.calls > 0 /\ up.file.filename_ok /\ up.file.columns_ok /\ FileRepeatsKey) =>
        /\ AddedRecords = {} /\ AddedMappings = {}
        /\ up.pc = "idle" =>
              /\ up.result.kind = "raise" /\ up.result.code = 400
              /\ batches[up.batch].status = "failed"

\* C19 witness: a second upload whose first row is new and whose second row
\* repeats a stored record was rejected.
C19_Witness ==
    /\ AttemptDone
    /\ Len(up.file.rows) = 2 /\ ValidIdx = {1, 2}
    /\ \A r \in StoredBefore : <<r.emp_id, r.duration_month>> # FileKey(1)
    /\ \E r \in StoredBefore : <<r.emp_id, r.duration_month>> = FileKey(2)
    /\ up.result.kind = "raise" /\ up.result.code = 400
    /\ records = StoredBefore

(***************************************************************************)
(* Month-range claims                                                      *)
(***************************************************************************)
\* The calendar month after (year, month).
NextCalendarMonth(ym) == IF ym[2] = 12 THEN <<ym[1] + 1, 1>> ELSE <<ym[1], ym[2] + 1>>

\* A sequence of (year, month) pairs runs month by month from start to end.
RunsMonthByMonth(pairs, start, end) ==
    /\ Len(pairs) >= 1
    /\ pairs[1] = start
    /\ pairs[Len(pairs)] = end
    /\ \A i \in 1..(Len(pairs) - 1) : pairs[i + 1] = NextCalendarMonth(pairs[i])

\* C20: for start <= end both month_range functions give the calendar
\* months from start to end, each once and in ascending order, also across
\* December, and the same set of (year, month) pairs; for start > end both
\* fail with HTTP 400 and give no month.
C20_MonthRanges ==
    last.svc = "month_range" =>
        LET s == last.payload.start_month
            e == last.payload.end_month
            sm == last.data.summary
            dl == last.data.download
            start == <<YearOf(s), MonthOf(s)>>
            end == <<YearOf(e), MonthOf(e)>>
            smPairs == [i \in 1..Len(sm.months) |->
                           <<YearOf(sm.months[i]), MonthOf(sm.months[i])>>]
            dlPairs == UNION {{<<y, dl.result[y][k]>> : k \in 1..Len(dl.result[y])} :
                              y \in DOMAIN dl.result}
        IN IF start[1] < end[1] \/ (start[1] = end[1] /\ start[2] <= end[2])
           THEN /\ last.status = 200
                /\ RunsMonthByMonth(smPairs, start, end)
                /\ dlPairs = {smPairs[i] : i \in 1..Len(smPairs)}
                /\ \A y \in DOMAIN dl.result :
                      \A k \in 1..(Len(dl.result[y]) - 1) :
                          dl.result[y][k] < dl.result[y][k + 1]
           ELSE /\ last.status = 400
                /\ sm.err # "" /\ sm.months = <<>>
                /\ dl.err # "" /\ dl.result = <<>>

\* C20 witness: a range from November over two year ends to January.
C20_Witness ==
    /\ last.svc = "month_range"
    /\ last.status = 200
    /\ last.payload.start_month = Date(2024, 11)
    /\ last.payload.end_month = Date(2026, 1)
    /\ Len(last.data.summary.months) = 15
    /\ DOMAIN last.data.download.result = {2024, 2025, 2026}

(***************************************************************************)
(* Mapping claims                                                          *)
(***************************************************************************)
\* The clean row of the current upload that record r was built from.
RowOfRecord(r) == up.clean[r.id - up.firstId + 1]

\* The day count of an uploaded cell is greater than 0.
DayCountPositive(cell) == cell.val > 0 \/ (cell.val = 0 /\ cell.half)

MappingsOf(rid) == {m \in mappings : m.shiftallowance_id = rid}

\* Every stored mapping has a known shift type, days > 0 and a stored
\* parent, and no record has two mappings of one type.
MappingsWellFormed ==
    /\ \A m \in mappings :
          /\ m.shift_type \in {ShiftTypes[i] : i \in 1..4}
          /\ m.days > 0
          /\ \E r \in records : r.id = m.shiftallowance_id
    /\ \A m1, m2 \in mappings :
          (m1.shiftallowance_id = m2.shiftallowance_id /\ m1.shift_type = m2.shift_type)
              => m1 = m2
    /\ \A r \in records : Cardinality(MappingsOf(r.id)) \in 0..4

\* C21: every stored record has zero to four mappings, at most one per
\* shift type, each with days > 0 and a stored parent, and a record has a
\* mapping for a type iff the day count of its uploaded row for that type
\* was greater than 0.
C21_MappingsMirrorRow ==
    /\ MappingsWellFormed
    /\ \A r \in AddedRecords : \A i \in 1..4 :
          (\E m \in MappingsOf(r.id) : m.shift_type = ShiftTypes[i])
              <=> DayCountPositive(RowOfRecord(r)[ShiftCols[i]])

\* The part of C21 that the stored mappings satisfy: a mapping exists for a
\* type iff the day count truncated to an integer is greater than 0.
C21_MappingsMirrorTruncatedRow ==
    /\ MappingsWellFormed
    /\ \A r \in AddedRecords : \A i \in 1..4 :
          (\E m \in MappingsOf(r.id) : m.shift_type = ShiftTypes[i])
              <=> RowOfRecord(r)[ShiftCols[i]].val > 0

(***************************************************************************)
(* Concurrency claims                                                      *)
(***************************************************************************)
\* C22: when two download requests with different filters are in flight,
\* the file sent to each request is completely written and holds exactly
\* the rows the service selected for that request.
C22_EachRequestGetsItsOwnFile ==
    streams[1].payload # streams[2].payload =>
        \A i \in 1..2 :
            streams[i].pc = "sent" => streams[i].sent = WrittenFile(streams[i].df)

====
